---------------------------- MODULE Spec2Model ----------------------------
(***************************************************************************)
(* AdScreenShell (packages/screen-shell, components/AdScreenShell/index.tsx)*)
(* and useCesiumViewer: the viewport synchronisation of ADui Screen.        *)
(*                                                                          *)
(* The shell measures its host element, resolves a HUD scale, derives the   *)
(* rectangle of the engine-mount layer and publishes a context record.      *)
(* Resize notifications go through a debounce; mount and prop changes call  *)
(* refresh() directly.  refresh() suspends once, at `await nextTick()`.     *)
(*                                                                          *)
(* JavaScript numbers are modelled as exact rationals <<n, d>>, d > 0, in   *)
(* lowest terms; every divisor the code uses is guarded positive.           *)
(***************************************************************************)
EXTENDS Integers, Sequences, FiniteSets, TLC

(***************************************************************************)
(* Bounds of the model.                                                     *)
(***************************************************************************)
MaxChanges == 2
MaxCalcChanges == 1
MaxNotifs == 2
MaxInits == 3
MaxStyleChanges == 1
MaxHostResizes == 2

(***************************************************************************)
(* Rational arithmetic.                                                     *)
(***************************************************************************)
\* Evaluated as functions: the arguments are values, computed once.
Q == Int \X (Nat \ {0})

GCD[a \in Nat, b \in Nat] == IF b = 0 THEN a ELSE GCD[b, a % b]

Abs(n) == IF n < 0 THEN -n ELSE n

Rat[n \in Int, d \in Nat \ {0}] ==
  IF n = 0 THEN <<0, 1>>
  ELSE <<n \div GCD[Abs(n), d], d \div GCD[Abs(n), d]>>

RInt[n \in Int] == <<n, 1>>
Zero == <<0, 1>>
One == <<1, 1>>

RMul[a \in Q, b \in Q] == Rat[a[1] * b[1], a[2] * b[2]]
RSub[a \in Q, b \in Q] == Rat[a[1] * b[2] - b[1] * a[2], a[2] * b[2]]
RAdd[a \in Q, b \in Q] == Rat[a[1] * b[2] + b[1] * a[2], a[2] * b[2]]
RHalf[a \in Q] == Rat[a[1], 2 * a[2]]
RLe[a \in Q, b \in Q] == a[1] * b[2] <= b[1] * a[2]
RLt[a \in Q, b \in Q] == a[1] * b[2] < b[1] * a[2]
RMin[a \in Q, b \in Q] == IF RLe[a, b] THEN a ELSE b
RMax[a \in Q, b \in Q] == IF RLe[a, b] THEN b ELSE a


(***************************************************************************)
(* Configuration and DOM value domains.                                     *)
(***************************************************************************)
ScaleModes == {"fit", "contain", "cover", "width", "height", "none"}

\* designWidth / designHeight pairs a parent may pass (0: an invalid value).
DesignSizes == {<<1920, 1080>>, <<1000, 1000>>, <<0, 1080>>}

\* clientWidth / clientHeight of the host element (0 x 0: before layout).
HostSizes ==
  {<<0, 0>>, <<960, 540>>, <<1920, 1200>>, <<1000, 2000>>, <<3840, 2160>>}

PropsSet ==
  [designWidth : {d[1] : d \in DesignSizes},
   designHeight : {d[2] : d \in DesignSizes},
   fullScreen : BOOLEAN,
   allowUpscale : BOOLEAN,
   scaleMode : ScaleModes]

InitialProps == {p \in PropsSet : <<p.designWidth, p.designHeight>> \in DesignSizes}

NoTransform == [kind |-> "none", x |-> One, y |-> One]
ScaleTransform(sx, sy) == [kind |-> "scale", x |-> sx, y |-> sy]

VARIABLES
  props,           \* the component's props (reactive, set by the parent)
  host,            \* <<clientWidth, clientHeight>> of the shell element
  phase,           \* "created" | "mounted" | "unmounted"
  shellEl,         \* template ref shellEl is non-null
  hudWrapperEl,    \* template ref hudWrapperEl is non-null
  state,           \* reactive state: originalWidth/Height, width/height
  uniformScale,    \* ref uniformScale
  viewportLayout,  \* reactive viewportLayout
  contextRef,      \* the provided context record
  wrapper,         \* inline style of the HUD wrapper element
  engineStyle,     \* rendered style of the engine-mount element
  timer,           \* debounce closure variable timer (0: null)
  armed,           \* timers armed in the window (setTimeout not yet fired)
  tasks,           \* suspended continuations, in microtask order
  ro,              \* ResizeObserver created by the mount hook observes the host
  roLast,          \* size the observer reported last
  listener,        \* window "resize" listener onResize is registered
  nChanges,        \* host size changes and prop changes so far
  burst,           \* history: notifications and runs of the current burst
  lastRun,         \* history: inputs of the last recompute that published
  afterUnmount,    \* history: continuations run since unmount
  styleProps,      \* props shellStyle and wrapperStyle (consumer style maps)
  lookup,          \* the last context lookup by a consumer and its outcome
  viewerSingleton, \* module variable viewerSingleton (0: null)
  viewerRef,       \* module-level shallowRef viewerRef (0: null)
  calls,           \* the init() calls: position, local `viewer`, result
  viewers,         \* every Viewer constructed so far: terrain, destroyed
  cesiumHost       \* the AdCesiumHost instance: its ref, hook position, observer

shellVars ==
  <<props, host, phase, shellEl, hudWrapperEl, state, uniformScale,
    viewportLayout, contextRef, wrapper, engineStyle, timer, armed, tasks,
    ro, roLast, listener, nChanges, burst, lastRun, afterUnmount, styleProps,
    lookup>>

viewerVars == <<viewerSingleton, viewerRef, calls, viewers, cesiumHost>>

vars == <<shellVars, viewerVars>>

TimerIds == 1 .. (MaxNotifs + 1)

(***************************************************************************)
(* contextRef / syncContext                                                 *)
(***************************************************************************)
InitialContextMeasured(p) ==
  [scale |-> One,
   designWidth |-> p.designWidth,
   designHeight |-> p.designHeight,
   containerWidth |-> host[1],
   containerHeight |-> host[2]]

InitialContext(p) ==
  [scale |-> One,
   designWidth |-> p.designWidth,
   designHeight |-> p.designHeight,
   containerWidth |-> 0,
   containerHeight |-> 0]

SyncContextStaleScale(scale, p, containerW, containerH) ==
  [scale |-> contextRef.scale,
   designWidth |-> p.designWidth,
   designHeight |-> p.designHeight,
   containerWidth |-> containerW,
   containerHeight |-> containerH]

SyncContextWithOverlayRoots(scale, p, containerW, containerH) ==
  [scale |-> scale,
   designWidth |-> p.designWidth,
   designHeight |-> p.designHeight,
   containerWidth |-> containerW,
   containerHeight |-> containerH,
   overlayRootScaledEl |-> <<"element">>,
   overlayRootUnscaledEl |-> <<"element">>]

SyncContext(scale, p, containerW, containerH) ==
  [scale |-> scale,
   designWidth |-> p.designWidth,
   designHeight |-> p.designHeight,
   containerWidth |-> containerW,
   containerHeight |-> containerH]

(***************************************************************************)
(* initializeDimensions, the part after `await nextTick()`.                 *)
(* clientW/clientH: what the captured shell element reports.                *)
(***************************************************************************)
InitializeDimensionsAccumulating(st, p, clientW, clientH) ==
  [originalWidth |-> IF st.originalWidth = 0 \/ st.originalHeight = 0
                     THEN clientW ELSE st.originalWidth,
   originalHeight |-> IF st.originalWidth = 0 \/ st.originalHeight = 0
                      THEN clientH ELSE st.originalHeight,
   width |-> st.width + p.designWidth,
   height |-> st.height + p.designHeight]

InitializeDimensions(st, p, clientW, clientH) ==
  LET fresh == st.originalWidth = 0 \/ st.originalHeight = 0
  IN [originalWidth |-> IF fresh THEN clientW ELSE st.originalWidth,
      originalHeight |-> IF fresh THEN clientH ELSE st.originalHeight,
      width |-> p.designWidth,
      height |-> p.designHeight]

(***************************************************************************)
(* updateDimensions: the wrapper gets the design size as its box.           *)
(***************************************************************************)
UpdateDimensions(w, st, wrapperEl) ==
  IF ~wrapperEl THEN w
  ELSE [w EXCEPT !.width = st.width, !.height = st.height]

(***************************************************************************)
(* autoScale: HUD transform, centring margin, engine rectangle.             *)
(* w.width / w.height are the wrapper's clientWidth / clientHeight.         *)
(***************************************************************************)
Centre(container, scaled) ==
  RMax[RHalf[RSub[RInt[container], scaled]], Zero]

AutoScaleUnscaled(scale, p, w, currentWidth, currentHeight) ==
  LET mx == Centre(currentWidth, RMul[RInt[w.width], scale])
      my == Centre(currentHeight, RMul[RInt[w.height], scale])
  IN [wrapper |->
        [w EXCEPT
           !.transform = IF p.scaleMode = "none" THEN NoTransform
                         ELSE ScaleTransform(scale, scale),
           !.margin = <<my, mx>>],
      layout |->
        [left |-> mx, top |-> my,
         width |-> RInt[w.width], height |-> RInt[w.height]]]

AutoScale(scale, p, w, currentWidth, currentHeight) ==
  LET domWidth == w.width
      domHeight == w.height
      mx == Centre(currentWidth, RMul[RInt[domWidth], scale])
      my == Centre(currentHeight, RMul[RInt[domHeight], scale])
  IN [wrapper |->
        [w EXCEPT
           !.transform = IF p.scaleMode = "none" THEN NoTransform
                         ELSE ScaleTransform(scale, scale),
           !.margin = <<my, mx>>],
      layout |->
        [left |-> mx,
         top |-> my,
         width |-> RMul[RInt[domWidth], scale],
         height |-> RMul[RInt[domHeight], scale]]]

(***************************************************************************)
(* updateScale.  b bundles what it may write:                               *)
(* [uniformScale, layout, context, wrapper, published].                     *)
(***************************************************************************)
ClampNever(allowUpscale, s) == s

Clamp(allowUpscale, s) == IF allowUpscale THEN s ELSE RMin[One, s]

\* Number.isFinite(s) && s > 0 ? s : 1   (s is always finite here)
Guarded(s) == IF RLt[Zero, s] THEN s ELSE One

UniformOfWidth(p, widthScale, heightScale) ==
  LET s == Clamp(p.allowUpscale, widthScale)
  IN IF p.scaleMode = "none" THEN One ELSE Guarded(s)

UniformOfMax(p, widthScale, heightScale) ==
  LET s == Clamp(p.allowUpscale, RMax[widthScale, heightScale])
  IN IF p.scaleMode = "none" THEN One ELSE Guarded(s)

UniformOfIgnoringNone(p, widthScale, heightScale) ==
  Guarded(Clamp(p.allowUpscale, RMin[widthScale, heightScale]))

UniformOf(p, widthScale, heightScale) ==
  LET raw == RMin[widthScale, heightScale]
      s == Clamp(p.allowUpscale, raw)
  IN IF p.scaleMode = "none" THEN One ELSE Guarded(s)

FullScreenScaleUniform(p, widthScale, heightScale) ==
  LET u == Clamp(p.allowUpscale, RMin[widthScale, heightScale])
  IN [sx |-> u, sy |-> u,
      uniform |-> IF p.scaleMode = "none" THEN One ELSE u]

FullScreenScaleMinUnderNone(p, widthScale, heightScale) ==
  LET sx == Clamp(p.allowUpscale, widthScale)
      sy == Clamp(p.allowUpscale, heightScale)
  IN [sx |-> sx, sy |-> sy, uniform |-> RMin[sx, sy]]

FullScreenScale(p, widthScale, heightScale) ==
  LET sx == Clamp(p.allowUpscale, widthScale)
      sy == Clamp(p.allowUpscale, heightScale)
  IN [sx |-> sx, sy |-> sy,
      uniform |-> IF p.scaleMode = "none" THEN One ELSE RMin[sx, sy]]

\* shell.clientWidth / clientHeight as updateScale and autoScale read them
MeasurePrevious(h) == IF lastRun.origin # "none" THEN <<lastRun.cw, lastRun.ch>> ELSE h

Measure(h) == h

FullScreenLayoutOfHud(w, currentWidth, currentHeight) ==
  [left |-> Zero, top |-> Zero,
   width |-> RInt[w.width], height |-> RInt[w.height]]

\* fullScreen: the engine viewport covers the whole shell
FullScreenLayout(w, currentWidth, currentHeight) ==
  [left |-> Zero, top |-> Zero,
   width |-> RInt[currentWidth], height |-> RInt[currentHeight]]

RecomputeRectangleFirst(b, st, p, h) ==
  LET currentWidth == Measure(h)[1]
      currentHeight == Measure(h)[2]
      realWidth == IF st.width # 0 THEN st.width ELSE st.originalWidth
      realHeight == IF st.height # 0 THEN st.height ELSE st.originalHeight
  IN IF realWidth <= 0 \/ realHeight <= 0 THEN b
     ELSE
       LET widthScale == Rat[currentWidth, realWidth]
           heightScale == Rat[currentHeight, realHeight]
       IN IF p.fullScreen
          THEN
            LET f == FullScreenScale(p, widthScale, heightScale)
            IN [uniformScale |-> f.uniform,
                layout |-> FullScreenLayout(b.wrapper, currentWidth, currentHeight),
                context |-> SyncContext(f.uniform, p, currentWidth, currentHeight),
                wrapper |->
                  [b.wrapper EXCEPT
                     !.transform = IF p.scaleMode = "none" THEN NoTransform
                                   ELSE ScaleTransform(f.sx, f.sy),
                     !.margin = <<Zero, Zero>>],
                published |-> TRUE]
          ELSE
            LET u == UniformOf(p, widthScale, heightScale)
                a == AutoScale(b.uniformScale, p, b.wrapper, currentWidth,
                               currentHeight)
            IN [uniformScale |-> u,
                layout |-> a.layout,
                context |-> SyncContext(u, p, currentWidth, currentHeight),
                wrapper |-> a.wrapper,
                published |-> TRUE]

\* updateScale once both refs are known to be non-null
Recompute(b, st, p, h) ==
  LET currentWidth == Measure(h)[1]
      currentHeight == Measure(h)[2]
      realWidth == IF st.width # 0 THEN st.width ELSE st.originalWidth
      realHeight == IF st.height # 0 THEN st.height ELSE st.originalHeight
  IN IF realWidth <= 0 \/ realHeight <= 0 THEN b
     ELSE
       LET widthScale == Rat[currentWidth, realWidth]
           heightScale == Rat[currentHeight, realHeight]
       IN IF p.fullScreen
          THEN
            LET f == FullScreenScale(p, widthScale, heightScale)
            IN [uniformScale |-> f.uniform,
                layout |-> FullScreenLayout(b.wrapper, currentWidth, currentHeight),
                context |-> SyncContext(f.uniform, p, currentWidth, currentHeight),
                wrapper |->
                  [b.wrapper EXCEPT
                     !.transform = IF p.scaleMode = "none" THEN NoTransform
                                   ELSE ScaleTransform(f.sx, f.sy),
                     !.margin = <<Zero, Zero>>],
                published |-> TRUE]
          ELSE
            LET u == UniformOf(p, widthScale, heightScale)
                a == AutoScale(u, p, b.wrapper, currentWidth, currentHeight)
            IN [uniformScale |-> u,
                layout |-> a.layout,
                context |-> SyncContext(u, p, currentWidth, currentHeight),
                wrapper |-> a.wrapper,
                published |-> TRUE]

UpdateScaleUnguarded(b, st, p, h, shell, wrapperEl) == Recompute(b, st, p, h)

UpdateScaleResetsDetached(b, st, p, h, shell, wrapperEl) ==
  IF ~shell \/ ~wrapperEl
  THEN [b EXCEPT !.uniformScale = One, !.context = InitialContext(p)]
  ELSE Recompute(b, st, p, h)

UpdateScale(b, st, p, h, shell, wrapperEl) ==
  IF ~shell \/ ~wrapperEl THEN b ELSE Recompute(b, st, p, h)

(***************************************************************************)
(* engineViewportStyle: the computed style of the engine-mount layer.       *)
(***************************************************************************)
EngineViewportStyleScaled(layout) ==
  [position |-> "absolute",
   left |-> layout.left,
   top |-> layout.top,
   width |-> layout.width,
   height |-> layout.height,
   overflow |-> "hidden",
   transform |-> ScaleTransform(uniformScale, uniformScale)]

EngineViewportStyle(layout) ==
  [position |-> "absolute",
   left |-> layout.left,
   top |-> layout.top,
   width |-> layout.width,
   height |-> layout.height,
   overflow |-> "hidden",
   transform |-> NoTransform]


(***************************************************************************)
(* shellStyle / hudWrapperBaseStyle: the consumer's maps are spread last.   *)
(* A map gives a key as <<value>> or leaves it out as << >>.                *)
(***************************************************************************)
NoStyleMap == [transform |-> << >>, margin |-> << >>, overflow |-> << >>]

\* props shellStyle / wrapperStyle both undefined (the defaults)
NoStyles == [shell |-> NoStyleMap, wrapper |-> NoStyleMap]

Override(base, given) == IF given # << >> THEN given ELSE <<base>>

ShellStyle(m) ==
  [position |-> <<"relative">>,
   overflow |-> Override("hidden", m.overflow),
   transform |-> m.transform,
   margin |-> m.margin]

HudWrapperBaseStyle(m) ==
  [position |-> <<"relative">>,
   overflow |-> Override("hidden", m.overflow),
   transformOrigin |-> <<"left top">>,
   transform |-> m.transform,
   margin |-> m.margin]

\* The render writes the style map to the wrapper element: a key the map has
\* is set, a key the previous map had and this one has not is cleared.
PatchStyle(w, prev, next) ==
  [w EXCEPT
     !.transform = IF next.transform # << >> THEN next.transform[1]
                   ELSE IF prev.transform # << >> THEN NoTransform
                   ELSE @,
     !.margin = IF next.margin # << >> THEN next.margin[1]
                ELSE IF prev.margin # << >> THEN <<Zero, Zero>>
                ELSE @]

(***************************************************************************)
(* debounce(fn, delayMs): the closure variable timer and the window's       *)
(* timer table.  setTimeout returns an id that is not in use.               *)
(***************************************************************************)
FreeIds(a, old) == {i \in TimerIds : i \notin a /\ i # old}

SetTimeout(a, old) ==
  CHOOSE i \in FreeIds(a, old) : \A j \in FreeIds(a, old) : i <= j

ClearTimeout(a, t) == IF t # 0 THEN a \ {t} ELSE a

DebounceNotifyNoClear(t, a) ==
  LET id == SetTimeout(a, t)
  IN [timer |-> id, armed |-> a \cup {id}]

\* d()
DebounceNotify(t, a) ==
  LET cleared == ClearTimeout(a, t)
      id == SetTimeout(cleared, t)
  IN [timer |-> id, armed |-> cleared \cup {id}]

DebounceCancelNoClear(t, a) == [timer |-> 0, armed |-> a]

\* d.cancel()
DebounceCancel(t, a) == [timer |-> 0, armed |-> ClearTimeout(a, t)]

DebounceFireNoCall(t, a, id) == [timer |-> 0, armed |-> a \ {id}, calls |-> 0]

\* the setTimeout callback: timer = null; fn()
DebounceFire(t, a, id) == [timer |-> 0, armed |-> a \ {id}, calls |-> 1]

(***************************************************************************)
(* History kept for the properties.                                         *)
(***************************************************************************)
NoRun ==
  [origin |-> "none", props |-> [designWidth |-> 0, designHeight |-> 0,
                                fullScreen |-> FALSE, allowUpscale |-> FALSE,
                                scaleMode |-> "none"],
   cw |-> 0, ch |-> 0, hudW |-> 0, hudH |-> 0]

NoBurst == [notifs |-> 0, runs |-> 0]

Min2(a, b) == IF a <= b THEN a ELSE b

(***************************************************************************)
(* useAdScreenShell / useAdScreenOverlayRoot: inject(AdScreenShellKey).     *)
(* An injected value is <<handle>>, or << >> when no provider is in scope.  *)
(***************************************************************************)
MissingProvider ==
  "[AdScreenShell] Missing provider. Make sure you are inside <AdScreenShell>."

NoLookup ==
  [call |-> "none", inside |-> FALSE, outcome |-> "none", error |-> "",
   handle |-> << >>, mode |-> "none"]

\* inject(AdScreenShellKey): the Ref the enclosing shell provided, if any
Inject(inside) == IF inside THEN <<"contextRef">> ELSE << >>

UseAdScreenShellDefault(ctx) ==
  IF ctx = << >>
  THEN [outcome |-> "returned", error |-> "", handle |-> <<"default">>]
  ELSE [outcome |-> "returned", error |-> "", handle |-> ctx]

\* useAdScreenShell(), given what inject returned
UseAdScreenShell(ctx) ==
  IF ctx = << >>
  THEN [outcome |-> "thrown", error |-> MissingProvider, handle |-> << >>]
  ELSE [outcome |-> "returned", error |-> "", handle |-> ctx]

OverlayRootModes == {"scaled", "unscaled"}

\* What reading a property gives: << >> is undefined (the record has no such
\* property), <<"null">> is null, <<"element">> is a mounted element.
Undefined == << >>

\* The computed `el` of useAdScreenOverlayRoot(mode), read on the record ctx.
OverlayRootEl(ctx, mode) ==
  LET f == IF mode = "scaled" THEN "overlayRootScaledEl"
           ELSE "overlayRootUnscaledEl"
  IN IF f \in DOMAIN ctx THEN ctx[f] ELSE Undefined

(***************************************************************************)
(* Init: the state after setup() has run, before the mount.                 *)
(***************************************************************************)
ZeroLayout == [left |-> Zero, top |-> Zero, width |-> Zero, height |-> Zero]

\* AdCesiumHost after setup(): hostEl null, ro null, the mount hook not run.
\* box is the element's size, roLast the size its observer reported last,
\* resizes / late count the resize() calls it made (late: after its unmount).
NoCesiumHost ==
  [phase |-> "created", hostEl |-> FALSE, pc |-> "idle", call |-> 0,
   ro |-> FALSE, observed |-> FALSE, box |-> <<0, 0>>, roLast |-> <<0, 0>>,
   resizes |-> 0, late |-> 0]

InitStyled(P, H, S) ==
  /\ styleProps \in S
  /\ lookup = NoLookup
  /\ props \in P
  /\ host \in H
  /\ phase = "created"
  /\ shellEl = FALSE
  /\ hudWrapperEl = FALSE
  /\ state = [originalWidth |-> 0, originalHeight |-> 0, width |-> 0, height |-> 0]
  /\ uniformScale = One
  /\ viewportLayout = ZeroLayout
  /\ contextRef = InitialContext(props)
  /\ wrapper = [width |-> 0, height |-> 0, transform |-> NoTransform,
                margin |-> <<Zero, Zero>>]
  /\ engineStyle = EngineViewportStyle(ZeroLayout)
  /\ timer = 0
  /\ armed = {}
  /\ tasks = << >>
  /\ ro = FALSE
  /\ roLast = <<0, 0>>
  /\ listener = FALSE
  /\ nChanges = 0
  /\ burst = NoBurst
  /\ lastRun = NoRun
  /\ afterUnmount = 0
  /\ viewerSingleton = 0
  /\ viewerRef = 0
  /\ calls = [c \in 1 .. MaxInits |-> [pc |-> "idle", viewer |-> 0, result |-> 0]]
  /\ viewers = << >>
  /\ cesiumHost = NoCesiumHost

InitWith(P, H) == InitStyled(P, H, {NoStyles})

(***************************************************************************)
(* refresh(): initializeDimensions reads shellEl, then awaits nextTick.     *)
(* The continuation is queued; `shell` is what the call captured.           *)
(***************************************************************************)
RefreshNotFromWatch(origin, q, shell) ==
  IF origin = "watch" THEN q
  ELSE Append(q, [kind |-> "refresh", origin |-> origin, shell |-> shell])

Refresh(origin, q, shell) ==
  Append(q, [kind |-> "refresh", origin |-> origin, shell |-> shell])

\* The Vue flush that re-renders after viewportLayout changed is a microtask
\* too: timers, observer callbacks and events run after it.
RenderPending ==
  phase = "mounted" /\ engineStyle # EngineViewportStyle(viewportLayout)

Quiet == tasks = << >> /\ ~RenderPending

\* onMounted: the first render has set the template refs and written
\* hudWrapperBaseStyle to the wrapper; refresh() starts.
Mount ==
  /\ phase = "created"
  /\ phase' = "mounted"
  /\ shellEl' = TRUE
  /\ hudWrapperEl' = TRUE
  /\ wrapper' = PatchStyle(wrapper, HudWrapperBaseStyle(NoStyleMap),
                           HudWrapperBaseStyle(styleProps.wrapper))
  /\ tasks' = Refresh("mount", tasks, TRUE)
  /\ UNCHANGED <<props, host, state, uniformScale, viewportLayout, contextRef,
                 engineStyle, timer, armed, ro, roLast, listener,
                 nChanges, burst, lastRun, afterUnmount>>
  /\ UNCHANGED <<styleProps, lookup, viewerVars>>

\* The rest of refresh() after nextTick: initializeDimensions' tail,
\* updateDimensions, updateScale.  One synchronous run.
RunRefresh(t) ==
  LET detached == phase = "unmounted"
      clientW == IF detached THEN 0 ELSE host[1]
      clientH == IF detached THEN 0 ELSE host[2]
      st1 == IF t.shell THEN InitializeDimensions(state, props, clientW, clientH)
             ELSE state
      w1 == UpdateDimensions(wrapper, st1, hudWrapperEl)
      b0 == [uniformScale |-> uniformScale, layout |-> viewportLayout,
             context |-> contextRef, wrapper |-> w1, published |-> FALSE]
      b1 == UpdateScale(b0, st1, props, host, shellEl, hudWrapperEl)
  IN /\ state' = st1
     /\ uniformScale' = b1.uniformScale
     /\ viewportLayout' = b1.layout
     /\ contextRef' = b1.context
     /\ wrapper' = b1.wrapper
     /\ lastRun' = IF b1.published
                   THEN [origin |-> t.origin, props |-> props,
                         cw |-> host[1], ch |-> host[2],
                         hudW |-> w1.width, hudH |-> w1.height]
                   ELSE lastRun
     /\ tasks' = IF t.origin = "mount"
                 THEN Append(Tail(tasks), [kind |-> "mounted", origin |-> "mount",
                                           shell |-> t.shell])
                 ELSE Tail(tasks)
     /\ afterUnmount' = IF detached THEN 1 ELSE afterUnmount
     /\ UNCHANGED <<ro, roLast, listener>>

\* The mount hook after `await refresh()`: observe the host, add the listener.
RunMounted ==
  /\ ro' = shellEl
  /\ roLast' = IF shellEl THEN <<0, 0>> ELSE roLast
  /\ listener' = TRUE
  /\ tasks' = Tail(tasks)
  /\ UNCHANGED <<state, uniformScale, viewportLayout, contextRef, wrapper,
                 lastRun, afterUnmount>>

RunTask ==
  /\ tasks # << >>
  /\ IF Head(tasks).kind = "refresh" THEN RunRefresh(Head(tasks)) ELSE RunMounted
  /\ UNCHANGED <<props, host, phase, shellEl, hudWrapperEl, engineStyle, timer,
                 armed, nChanges, burst>>
  /\ UNCHANGED <<styleProps, lookup, viewerVars>>

\* Vue re-renders the component: the engine layer gets engineViewportStyle.
Render ==
  /\ RenderPending
  /\ engineStyle' = EngineViewportStyle(viewportLayout)
  /\ UNCHANGED <<props, host, phase, shellEl, hudWrapperEl, state, uniformScale,
                 viewportLayout, contextRef, wrapper, timer, armed, tasks, ro,
                 roLast, listener, nChanges, burst, lastRun, afterUnmount>>
  /\ UNCHANGED <<styleProps, lookup, viewerVars>>

\* The parent changes watched props; the watcher calls refresh() once.
PropChange(P, max) ==
  /\ phase = "mounted"
  /\ nChanges < max
  /\ \E p \in P :
       /\ p # props
       /\ props' = p
  /\ nChanges' = nChanges + 1
  /\ tasks' = Refresh("watch", tasks, shellEl)
  /\ UNCHANGED <<host, phase, shellEl, hudWrapperEl, state, uniformScale,
                 viewportLayout, contextRef, wrapper, engineStyle, timer, armed,
                 ro, roLast, listener, burst, lastRun, afterUnmount>>
  /\ UNCHANGED <<styleProps, lookup, viewerVars>>

\* Layout gives the host element another size.
HostResize(H, max) ==
  /\ phase = "mounted"
  /\ nChanges < max
  /\ \E h \in H :
       /\ h # host
       /\ host' = h
  /\ nChanges' = nChanges + 1
  /\ UNCHANGED <<props, phase, shellEl, hudWrapperEl, state, uniformScale,
                 viewportLayout, contextRef, wrapper, engineStyle, timer, armed,
                 tasks, ro, roLast, listener, burst, lastRun, afterUnmount>>
  /\ UNCHANGED <<styleProps, lookup, viewerVars>>

\* onResize(): the debounced function is called by either source.
OnResize ==
  /\ FreeIds(ClearTimeout(armed, timer), timer) # {}
  /\ LET d == DebounceNotify(timer, armed)
     IN /\ timer' = d.timer
        /\ armed' = d.armed
  /\ burst' = [notifs |-> IF timer = 0 THEN 1 ELSE Min2(burst.notifs + 1, MaxNotifs),
               runs |-> IF timer = 0 THEN 0 ELSE burst.runs]

\* The ResizeObserver reports a size that differs from the last one reported.
RODeliver ==
  /\ Quiet
  /\ ro
  /\ host # roLast
  /\ roLast' = host
  /\ OnResize
  /\ UNCHANGED <<props, host, phase, shellEl, hudWrapperEl, state, uniformScale,
                 viewportLayout, contextRef, wrapper, engineStyle, tasks, ro,
                 listener, nChanges, lastRun, afterUnmount>>
  /\ UNCHANGED <<styleProps, lookup, viewerVars>>

\* A window "resize" event reaches the registered listener.
WindowResize ==
  /\ Quiet
  /\ listener
  /\ OnResize
  /\ UNCHANGED <<props, host, phase, shellEl, hudWrapperEl, state, uniformScale,
                 viewportLayout, contextRef, wrapper, engineStyle, tasks, ro,
                 roLast, listener, nChanges, lastRun, afterUnmount>>
  /\ UNCHANGED <<styleProps, lookup, viewerVars>>

\* An armed timer fires: timer = null; fn(), and fn is `void refresh()`.
TimerFire(id) ==
  /\ Quiet
  /\ id \in armed
  /\ LET d == DebounceFire(timer, armed, id)
     IN /\ timer' = d.timer
        /\ armed' = d.armed
        /\ tasks' = IF d.calls = 1 THEN Refresh("timer", tasks, shellEl) ELSE tasks
        /\ burst' = [burst EXCEPT !.runs = Min2(@ + d.calls, 2)]
  /\ UNCHANGED <<props, host, phase, shellEl, hudWrapperEl, state, uniformScale,
                 viewportLayout, contextRef, wrapper, engineStyle, ro, roLast,
                 listener, nChanges, lastRun, afterUnmount>>
  /\ UNCHANGED <<styleProps, lookup, viewerVars>>

\* onBeforeUnmount, then Vue unmounts the subtree and releases the refs.
Unmount ==
  /\ phase = "mounted"
  /\ phase' = "unmounted"
  /\ LET d == DebounceCancel(timer, armed)
     IN /\ timer' = d.timer
        /\ armed' = d.armed
  /\ listener' = FALSE
  /\ ro' = FALSE
  /\ shellEl' = FALSE
  /\ hudWrapperEl' = FALSE
  /\ burst' = NoBurst
  /\ UNCHANGED <<props, host, state, uniformScale, viewportLayout, contextRef,
                 wrapper, engineStyle, tasks, roLast, nChanges, lastRun,
                 afterUnmount>>
  /\ UNCHANGED <<styleProps, lookup, viewerVars>>

(***************************************************************************)
(* The shell's life: mount, resizes, prop changes, timers, unmount.         *)
(***************************************************************************)
DefaultProps ==
  [designWidth |-> 1920, designHeight |-> 1080, fullScreen |-> FALSE,
   allowUpscale |-> TRUE, scaleMode |-> "fit"]

LifeProps ==
  {DefaultProps,
   [DefaultProps EXCEPT !.fullScreen = TRUE],
   [DefaultProps EXCEPT !.scaleMode = "none", !.allowUpscale = FALSE],
   [DefaultProps EXCEPT !.designWidth = 1000, !.designHeight = 1000]}

LifeHosts == {<<0, 0>>, <<960, 540>>, <<3840, 2160>>}

Init == InitWith(LifeProps, LifeHosts)

Next ==
  \/ Mount
  \/ RunTask
  \/ Render
  \/ PropChange(LifeProps, MaxChanges)
  \/ HostResize(LifeHosts, MaxChanges)
  \/ RODeliver
  \/ WindowResize
  \/ \E id \in TimerIds : TimerFire(id)
  \/ Unmount

Spec == Init /\ [][Next]_vars

(***************************************************************************)
(* The scheduler under fairness.  A timer that stays armed fires (each id   *)
(* on its own: the window owes nothing to a timer that was cleared), and    *)
(* the microtasks (continuations, the render flush) always run.  Window     *)
(* resize events may keep coming for ever.                                  *)
(***************************************************************************)
InitLive == InitWith({DefaultProps}, {<<960, 540>>})

NextLive ==
  \/ Mount
  \/ RunTask
  \/ Render
  \/ HostResize(LifeHosts, MaxChanges)
  \/ RODeliver
  \/ WindowResize
  \/ \E id \in TimerIds : TimerFire(id)
  \/ Unmount

Fairness ==
  /\ \A id \in TimerIds : WF_vars(TimerFire(id))
  /\ WF_vars(RunTask)
  /\ WF_vars(Render)

SpecLive == InitLive /\ [][NextLive]_vars /\ Fairness

(***************************************************************************)
(* The recompute over the whole configuration space: every prop record and  *)
(* host size at mount, then direct refreshes after a change.                *)
(***************************************************************************)
InitCalc == InitWith(InitialProps, HostSizes)

\* The prop records that differ from p in the design size or in one policy prop.
Neighbours(p) ==
  {q \in InitialProps :
     \/ /\ q.fullScreen = p.fullScreen
        /\ q.allowUpscale = p.allowUpscale
        /\ q.scaleMode = p.scaleMode
     \/ /\ q.designWidth = p.designWidth
        /\ q.designHeight = p.designHeight
        /\ Cardinality({f \in {"fullScreen", "allowUpscale", "scaleMode"} :
                          q[f] # p[f]}) = 1}

NextCalc ==
  \/ Mount
  \/ RunTask
  \/ Render
  \/ PropChange(Neighbours(props), MaxCalcChanges)
  \/ HostResize(HostSizes, MaxCalcChanges)

SpecCalc == InitCalc /\ [][NextCalc]_vars

(***************************************************************************)
(* Consumer style maps: the parent may pass any shellStyle / wrapperStyle,  *)
(* at creation and later.                                                   *)
(***************************************************************************)
StyleMaps ==
  {NoStyleMap,
   [NoStyleMap EXCEPT !.overflow = <<"visible">>],
   [NoStyleMap EXCEPT !.transform = <<ScaleTransform(RInt[2], RInt[2])>>],
   [NoStyleMap EXCEPT !.transform = <<NoTransform>>,
                      !.margin = <<<<RInt[8], RInt[8]>>>>]}

StyleSet == [shell : StyleMaps, wrapper : StyleMaps]

\* The parent passes other style maps; the shell re-renders and the wrapper
\* element gets the new hudWrapperBaseStyle.  No refresh is started: the
\* watcher does not watch the style props.
StyleChange(max) ==
  /\ phase = "mounted"
  /\ nChanges < max
  /\ \E m \in StyleSet :
       /\ m # styleProps
       /\ styleProps' = m
       /\ wrapper' = IF m.wrapper = styleProps.wrapper THEN wrapper
                     ELSE PatchStyle(wrapper,
                                     HudWrapperBaseStyle(styleProps.wrapper),
                                     HudWrapperBaseStyle(m.wrapper))
  /\ nChanges' = nChanges + 1
  /\ UNCHANGED <<props, host, phase, shellEl, hudWrapperEl, state, uniformScale,
                 viewportLayout, contextRef, engineStyle, timer, armed, tasks,
                 ro, roLast, listener, burst, lastRun, afterUnmount>>
  /\ UNCHANGED <<lookup, viewerVars>>

StyleHosts == {<<960, 540>>, <<3840, 2160>>}

InitStyle == InitStyled({DefaultProps}, StyleHosts, StyleSet)

NextStyle ==
  \/ Mount
  \/ RunTask
  \/ Render
  \/ StyleChange(MaxStyleChanges)
  \/ HostResize(StyleHosts, MaxStyleChanges)
  \/ RODeliver
  \/ \E id \in TimerIds : TimerFire(id)
  \/ Unmount

SpecStyle == InitStyle /\ [][NextStyle]_vars

(***************************************************************************)
(* Consumers: components that look the context up in their setup, either    *)
(* below the shell (its slots are rendered until it unmounts) or elsewhere. *)
(***************************************************************************)
CallUseAdScreenShell(inside) ==
  /\ inside => phase # "unmounted"
  /\ LET r == UseAdScreenShell(Inject(inside))
     IN lookup' = [call |-> "useAdScreenShell", inside |-> inside,
                   outcome |-> r.outcome, error |-> r.error,
                   handle |-> r.handle, mode |-> "none"]
  /\ lookup' # lookup
  /\ UNCHANGED <<props, host, phase, shellEl, hudWrapperEl, state, uniformScale,
                 viewportLayout, contextRef, wrapper, engineStyle, timer, armed,
                 tasks, ro, roLast, listener, nChanges, burst, lastRun,
                 afterUnmount, styleProps>>
  /\ UNCHANGED viewerVars

\* useAdScreenOverlayRoot(mode): useAdScreenShell() first (its throw
\* propagates), then a computed over the handle.
CallUseAdScreenOverlayRoot(inside, mode) ==
  /\ inside => phase # "unmounted"
  /\ LET r == UseAdScreenShell(Inject(inside))
     IN lookup' = [call |-> "useAdScreenOverlayRoot", inside |-> inside,
                   outcome |-> r.outcome, error |-> r.error,
                   handle |-> r.handle,
                   mode |-> IF r.outcome = "returned" THEN mode ELSE "none"]
  /\ lookup' # lookup
  /\ UNCHANGED <<props, host, phase, shellEl, hudWrapperEl, state, uniformScale,
                 viewportLayout, contextRef, wrapper, engineStyle, timer, armed,
                 tasks, ro, roLast, listener, nChanges, burst, lastRun,
                 afterUnmount, styleProps>>
  /\ UNCHANGED viewerVars

InitLookup == InitWith({DefaultProps}, LifeHosts)

NextLookup ==
  \/ Mount
  \/ RunTask
  \/ Render
  \/ HostResize(LifeHosts, MaxChanges)
  \/ Unmount
  \/ \E inside \in BOOLEAN : CallUseAdScreenShell(inside)
  \/ \E inside \in BOOLEAN : \E mode \in OverlayRootModes :
       CallUseAdScreenOverlayRoot(inside, mode)

SpecLookup == InitLookup /\ [][NextLookup]_vars

(***************************************************************************)
(* useCesiumViewer: init / resize / destroy on the module-level singleton.  *)
(* init() suspends once, at `await createWorldTerrainAsync()`.              *)
(***************************************************************************)
\* beforeDestroy is history: a destroy() call has returned since the init()
\* that constructed the viewer started.
NewViewer ==
  [terrain |-> FALSE, destroyed |-> FALSE, resized |-> FALSE,
   beforeDestroy |-> FALSE]

\* init(), up to the await: reuse the singleton or construct a Viewer.
InitCall(c) ==
  /\ calls[c].pc = "idle"
  /\ \A b \in 1 .. (c - 1) : calls[b].pc # "idle"
  /\ IF viewerSingleton # 0
     THEN /\ viewerRef' = viewerSingleton
          /\ calls' = [calls EXCEPT ![c] = [pc |-> "done", viewer |-> 0,
                                            result |-> viewerSingleton]]
          /\ UNCHANGED <<viewerSingleton, viewers>>
     ELSE /\ viewers' = Append(viewers, NewViewer)
          /\ calls' = [calls EXCEPT ![c] = [pc |-> "terrain",
                                            viewer |-> Len(viewers) + 1,
                                            result |-> 0]]
          /\ UNCHANGED <<viewerSingleton, viewerRef>>

\* init() called by some other consumer of useCesiumViewer.
InitStart(c) ==
  /\ InitCall(c)
  /\ UNCHANGED cesiumHost
  /\ UNCHANGED shellVars

InitResumeRethrow(c, loaded) ==
  /\ calls[c].pc = "terrain"
  /\ LET v == calls[c].viewer
     IN IF loaded
        THEN /\ viewers' = [viewers EXCEPT ![v].terrain = TRUE]
             /\ viewerSingleton' = v
             /\ viewerRef' = v
             /\ calls' = [calls EXCEPT ![c] = [pc |-> "done", viewer |-> v,
                                               result |-> v]]
        ELSE /\ calls' = [calls EXCEPT ![c] = [pc |-> "failed", viewer |-> v,
                                               result |-> 0]]
             /\ UNCHANGED <<viewers, viewerSingleton, viewerRef>>
  /\ UNCHANGED cesiumHost
  /\ UNCHANGED shellVars

\* init() after the await: the terrain was loaded, or loading threw and the
\* catch swallowed it; then the viewer is registered and returned.
InitResume(c, loaded) ==
  /\ calls[c].pc = "terrain"
  /\ LET v == calls[c].viewer
     IN /\ viewers' = IF loaded THEN [viewers EXCEPT ![v].terrain = TRUE]
                      ELSE viewers
        /\ viewerSingleton' = v
        /\ viewerRef' = v
        /\ calls' = [calls EXCEPT ![c] = [pc |-> "done", viewer |-> v,
                                          result |-> v]]
  /\ UNCHANGED cesiumHost
  /\ UNCHANGED shellVars

\* resize(): v.resize() on the registered viewer, nothing without one.
ViewerResize ==
  /\ viewerRef # 0
  /\ ~viewers[viewerRef].resized
  /\ viewers' = [viewers EXCEPT ![viewerRef].resized = TRUE]
  /\ UNCHANGED <<viewerSingleton, viewerRef, calls, cesiumHost>>
  /\ UNCHANGED shellVars

\* destroy(): destroys and unregisters the singleton, nothing without one.
ViewerDestroy ==
  /\ viewers' = [v \in DOMAIN viewers |->
                   [viewers[v] EXCEPT
                      !.destroyed = IF v = viewerSingleton THEN TRUE ELSE @,
                      !.beforeDestroy = TRUE]]
  /\ IF viewerSingleton # 0
     THEN /\ viewerSingleton' = 0
          /\ viewerRef' = 0
     ELSE UNCHANGED <<viewerSingleton, viewerRef>>
  /\ UNCHANGED <<calls, cesiumHost>>
  /\ UNCHANGED shellVars

InitViewer == InitWith({DefaultProps}, {<<0, 0>>})

NextViewer ==
  \/ \E c \in 1 .. MaxInits : InitStart(c)
  \/ \E c \in 1 .. MaxInits : \E loaded \in BOOLEAN : InitResume(c, loaded)
  \/ ViewerResize
  \/ ViewerDestroy

SpecViewer == InitViewer /\ [][NextViewer]_vars

(***************************************************************************)
(* AdCesiumHost: the mount hook awaits init(el), then observes the element  *)
(* and calls resize(); onBeforeUnmount unobserves.                          *)
(***************************************************************************)
HostBoxes == {<<0, 0>>, <<960, 540>>, <<1920, 1080>>}

\* resize() of useCesiumViewer, as a function of the registry.
ResizeViewer(vs, ref) ==
  IF ref = 0 THEN vs ELSE [vs EXCEPT ![ref].resized = TRUE]

\* One resize() call made by the host (directly or from its observer).
HostCallsResize(h) ==
  [h EXCEPT !.resizes = Min2(@ + 1, MaxHostResizes + 1),
            !.late = IF h.phase = "unmounted" THEN 1 ELSE @]

\* onMounted up to `await init(el)`: the first render has set hostEl and
\* laid the element out.
CesiumHostMount ==
  /\ cesiumHost.phase = "created"
  /\ \E c \in 1 .. MaxInits : \E b \in HostBoxes :
       /\ InitCall(c)
       /\ cesiumHost' = [cesiumHost EXCEPT !.phase = "mounted",
                                           !.hostEl = TRUE, !.pc = "awaiting",
                                           !.call = c, !.box = b]
  /\ UNCHANGED shellVars

\* The mount hook after `await init(el)`: new ResizeObserver, observe(el)
\* on the element captured before the await, then resize().
CesiumHostResume ==
  /\ cesiumHost.pc = "awaiting"
  /\ calls[cesiumHost.call].pc = "done"
  /\ cesiumHost' = [HostCallsResize(cesiumHost) EXCEPT
                      !.pc = "done", !.ro = TRUE, !.observed = TRUE,
                      !.roLast = <<0, 0>>]
  /\ viewers' = ResizeViewer(viewers, viewerRef)
  /\ UNCHANGED <<viewerSingleton, viewerRef, calls>>
  /\ UNCHANGED shellVars

\* Layout gives the mounted element another size.
CesiumHostBox ==
  /\ cesiumHost.phase = "mounted"
  /\ \E b \in HostBoxes :
       /\ b # cesiumHost.box
       /\ cesiumHost' = [cesiumHost EXCEPT !.box = b]
  /\ UNCHANGED <<viewerSingleton, viewerRef, calls, viewers>>
  /\ UNCHANGED shellVars

\* The observer reports a size that differs from the last one reported; its
\* callback calls resize().
CesiumHostRODeliver ==
  /\ cesiumHost.observed
  /\ cesiumHost.box # cesiumHost.roLast
  /\ cesiumHost.resizes <= MaxHostResizes
  /\ cesiumHost' = [HostCallsResize(cesiumHost) EXCEPT !.roLast = cesiumHost.box]
  /\ viewers' = ResizeViewer(viewers, viewerRef)
  /\ UNCHANGED <<viewerSingleton, viewerRef, calls>>
  /\ UNCHANGED shellVars

\* onBeforeUnmount, then Vue removes the element and releases the ref.
CesiumHostUnmount ==
  /\ cesiumHost.phase = "mounted"
  /\ cesiumHost' = [cesiumHost EXCEPT
                      !.phase = "unmounted",
                      !.observed = IF cesiumHost.ro /\ cesiumHost.hostEl
                                   THEN FALSE ELSE @,
                      !.ro = FALSE,
                      !.hostEl = FALSE,
                      !.box = <<0, 0>>]
  /\ UNCHANGED <<viewerSingleton, viewerRef, calls, viewers>>
  /\ UNCHANGED shellVars

NextHost ==
  \/ CesiumHostMount
  \/ CesiumHostResume
  \/ CesiumHostBox
  \/ CesiumHostRODeliver
  \/ CesiumHostUnmount
  \/ \E c \in 1 .. MaxInits : InitStart(c)
  \/ \E c \in 1 .. MaxInits : \E loaded \in BOOLEAN : InitResume(c, loaded)

SpecHost == InitViewer /\ [][NextHost]_vars

(***************************************************************************)
(* Properties.                                                              *)
(***************************************************************************)
Published == lastRun.origin # "none"

PositiveRun ==
  /\ lastRun.cw > 0 /\ lastRun.ch > 0
  /\ lastRun.props.designWidth > 0 /\ lastRun.props.designHeight > 0

WidthRatio == Rat[lastRun.cw, lastRun.props.designWidth]
HeightRatio == Rat[lastRun.ch, lastRun.props.designHeight]

Layout(l, t, w, h) ==
  [left |-> RInt[l], top |-> RInt[t], width |-> RInt[w], height |-> RInt[h]]

RunOf(dw, dh, cw, ch) ==
  /\ Published
  /\ lastRun.props.designWidth = dw /\ lastRun.props.designHeight = dh
  /\ lastRun.cw = cw /\ lastRun.ch = ch

\* C1: in every state the rendered style of the engine-mount layer has the
\* identity transform, and once the pending render has run its left, top,
\* width and height are exactly those of viewportLayout; a scale only ever
\* appears in the HUD wrapper's transform.
C1_EngineNeverScaled ==
  /\ engineStyle.transform = NoTransform
  /\ engineStyle.transform.kind # "scale"
  /\ (phase = "mounted" /\ ~RenderPending) =>
       /\ engineStyle.left = viewportLayout.left
       /\ engineStyle.top = viewportLayout.top
       /\ engineStyle.width = viewportLayout.width
       /\ engineStyle.height = viewportLayout.height

\* C1 witness: after a debounced recompute the HUD wrapper carries a scale
\* other than 1 and the engine layer has been rendered with the new rectangle.
C1_Witness ==
  /\ lastRun.origin = "timer"
  /\ wrapper.transform.kind = "scale"
  /\ wrapper.transform.x # One
  /\ phase = "mounted" /\ ~RenderPending
  /\ engineStyle.width = viewportLayout.width
  /\ viewportLayout.width # Zero

\* C2: a burst of notifications (observer and window listener, in any mix),
\* each arriving while the previous timer is armed, keeps at most one timer
\* armed and starts exactly one refresh: the armed timers and the runs started
\* for the burst always add up to one; and what a debounced run publishes is
\* the size the host has when it publishes.
C2_BurstRunsOnce ==
  /\ Cardinality(armed) <= 1
  /\ burst.notifs >= 1 => Cardinality(armed) + burst.runs = 1
  /\ lastRun.origin = "timer" =>
       /\ contextRef.containerWidth = lastRun.cw
       /\ contextRef.containerHeight = lastRun.ch

\* C2 witness: two notifications of one burst, after two host resizes, one
\* run, which published the size the host has now.
C2_Witness ==
  /\ burst.notifs >= 2
  /\ burst.runs = 1
  /\ armed = {}
  /\ tasks = << >>
  /\ nChanges = 2
  /\ lastRun.origin = "timer"
  /\ contextRef.containerWidth = host[1]
  /\ contextRef.containerHeight = host[2]
  /\ host # <<0, 0>>

\* C4: once unmounted, no step changes contextRef or viewportLayout.
C4_NoWriteAfterUnmount ==
  [][phase = "unmounted" =>
       (contextRef' = contextRef /\ viewportLayout' = viewportLayout)]_vars

\* C4 witness: a refresh continuation has run after the unmount.
C4_Witness == phase = "unmounted" /\ afterUnmount = 1 /\ tasks = << >>

\* C6 as stated: with scaleMode fit, fullScreen off and positive sizes the
\* published scale is min(containerW/designW, containerH/designH), and left
\* and top are >= 0.
C6_FitIsMinRatio ==
  (Published /\ PositiveRun /\ lastRun.props.scaleMode = "fit"
     /\ ~lastRun.props.fullScreen) =>
    /\ contextRef.scale = RMin[WidthRatio, HeightRatio]
    /\ RLe[Zero, viewportLayout.left]
    /\ RLe[Zero, viewportLayout.top]

\* C6 amended: with scaleMode fit, fullScreen off and positive sizes the
\* published scale is min(containerW/designW, containerH/designH) when
\* allowUpscale is on and the smaller of that and 1 when it is off; left and
\* top are >= 0; design 1920x1080 in a 960x540 container gives scale 1/2 and
\* the layout {0, 0, 960, 540}.
C6_FitIsClampedMinRatio ==
  (Published /\ PositiveRun /\ lastRun.props.scaleMode = "fit"
     /\ ~lastRun.props.fullScreen) =>
    LET m == RMin[WidthRatio, HeightRatio]
    IN /\ lastRun.props.allowUpscale => contextRef.scale = m
       /\ ~lastRun.props.allowUpscale =>
            contextRef.scale = (IF RLe[m, One] THEN m ELSE One)
       /\ RLe[Zero, viewportLayout.left]
       /\ RLe[Zero, viewportLayout.top]
       /\ RunOf(1920, 1080, 960, 540) =>
            /\ contextRef.scale = Rat[1, 2]
            /\ viewportLayout = Layout(0, 0, 960, 540)

\* C6 witness: the 960x540 scenario.
C6_Witness ==
  /\ RunOf(1920, 1080, 960, 540)
  /\ lastRun.props.scaleMode = "fit"
  /\ ~lastRun.props.fullScreen
  /\ contextRef.scale = Rat[1, 2]
  /\ viewportLayout = Layout(0, 0, 960, 540)

\* C7 as stated (with allowUpscale on, so that no clamp interferes): with
\* fullScreen off and positive sizes, cover publishes the larger ratio, width
\* the width ratio and height the height ratio.
C7_ModeDispatch ==
  (Published /\ PositiveRun /\ ~lastRun.props.fullScreen
     /\ lastRun.props.allowUpscale) =>
    /\ lastRun.props.scaleMode = "cover" =>
         contextRef.scale = RMax[WidthRatio, HeightRatio]
    /\ lastRun.props.scaleMode = "width" => contextRef.scale = WidthRatio
    /\ lastRun.props.scaleMode = "height" => contextRef.scale = HeightRatio

\* C8: a recompute under allowUpscale = false publishes a scale <= 1, for
\* every scale mode, with fullScreen on or off; when the container is k times
\* the design in both directions, k >= 1, the scale is exactly 1.
C8_UpscaleClamp ==
  (Published /\ ~lastRun.props.allowUpscale) =>
    /\ RLe[contextRef.scale, One]
    /\ RLe[uniformScale, One]
    /\ (PositiveRun /\ \E k \in 1 .. 4 :
          /\ lastRun.cw = lastRun.props.designWidth * k
          /\ lastRun.ch = lastRun.props.designHeight * k) =>
         contextRef.scale = One

\* C8 witness: container 3840x2160 is twice the design 1920x1080, mode cover,
\* and the published scale is 1.
C8_Witness ==
  /\ RunOf(1920, 1080, 3840, 2160)
  /\ ~lastRun.props.allowUpscale
  /\ lastRun.props.scaleMode = "cover"
  /\ ~lastRun.props.fullScreen
  /\ contextRef.scale = One

Contained ==
  /\ RLe[Zero, viewportLayout.left]
  /\ RLe[Zero, viewportLayout.top]
  /\ RLe[RAdd[viewportLayout.left, viewportLayout.width], RInt[lastRun.cw]]
  /\ RLe[RAdd[viewportLayout.top, viewportLayout.height], RInt[lastRun.ch]]

\* C9 as stated: after every recompute the viewportLayout rectangle lies
\* inside the host content box.
C9_AlwaysContained == Published => Contained

\* C9 amended: after every recompute left and top are >= 0; the rectangle
\* lies inside the host content box when fullScreen is on, and when the scale
\* mode is not none and the container size is positive.
C9_ContainedWhenScaled ==
  Published =>
    /\ RLe[Zero, viewportLayout.left]
    /\ RLe[Zero, viewportLayout.top]
    /\ (lastRun.props.fullScreen
          \/ (lastRun.props.scaleMode # "none" /\ lastRun.cw > 0 /\ lastRun.ch > 0))
         => Contained

\* C9 witness: a centred rectangle strictly inside the container.
C9_Witness ==
  /\ Published
  /\ ~lastRun.props.fullScreen
  /\ lastRun.props.scaleMode = "cover"
  /\ RLt[Zero, viewportLayout.top]
  /\ RLt[Zero, viewportLayout.width]
  /\ Contained

\* C10: after a recompute on the non-full-screen path, with s the scale of the
\* HUD wrapper's transform (1 when it is the identity) and hudW x hudH the
\* wrapper's box, viewportLayout is {max((cw - hudW*s)/2, 0),
\* max((ch - hudH*s)/2, 0), hudW*s, hudH*s} and left/top are the wrapper's
\* margin; design 1920x1080 in 1920x1200, fit, allowUpscale on, gives scale 1
\* and {0, 60, 1920, 1080}.
C10_EngineRectIsHudFootprint ==
  (Published /\ ~lastRun.props.fullScreen) =>
    LET s == wrapper.transform.x
        w == RMul[RInt[lastRun.hudW], s]
        h == RMul[RInt[lastRun.hudH], s]
        l == RHalf[RSub[RInt[lastRun.cw], w]]
        t == RHalf[RSub[RInt[lastRun.ch], h]]
    IN /\ wrapper.transform.y = s
       /\ wrapper.transform.kind = "none" => s = One
       /\ s = contextRef.scale
       /\ viewportLayout.width = w
       /\ viewportLayout.height = h
       /\ viewportLayout.left = (IF RLe[Zero, l] THEN l ELSE Zero)
       /\ viewportLayout.top = (IF RLe[Zero, t] THEN t ELSE Zero)
       /\ wrapper.margin = <<viewportLayout.top, viewportLayout.left>>
       /\ (RunOf(1920, 1080, 1920, 1200) /\ lastRun.props.scaleMode = "fit"
             /\ lastRun.props.allowUpscale) =>
            /\ contextRef.scale = One
            /\ viewportLayout = Layout(0, 60, 1920, 1080)

\* C10 witness: the 1920x1200 scenario.
C10_Witness ==
  /\ RunOf(1920, 1080, 1920, 1200)
  /\ lastRun.props.scaleMode = "fit"
  /\ lastRun.props.allowUpscale
  /\ ~lastRun.props.fullScreen
  /\ viewportLayout = Layout(0, 60, 1920, 1080)
  /\ wrapper.margin = <<RInt[60], Zero>>

\* C5 as stated: until a destroy(), at most one Viewer is constructed, and
\* all init() calls that have returned returned the same handle.
C5_OneViewer ==
  (\A v \in 1 .. Len(viewers) : ~viewers[v].destroyed) =>
    /\ Len(viewers) <= 1
    /\ \A a, b \in 1 .. MaxInits :
         (calls[a].pc = "done" /\ calls[b].pc = "done") =>
           calls[a].result = calls[b].result

\* C3 as stated: every notification that has not been answered by a run is
\* eventually followed by a run of the refresh pipeline, unless it is
\* cancelled.
C3_EveryNotifyRuns ==
  (burst.notifs >= 1 /\ burst.runs = 0) ~> (burst.runs >= 1 \/ burst.notifs = 0)

Settled(id) ==
  /\ timer # id
  /\ \/ timer # 0
     \/ burst.runs >= 1
     \/ burst.notifs = 0

\* C3 amended: a notification whose timer is neither cleared by cancel() nor
\* superseded by a later notify() is eventually followed by a run of the
\* refresh pipeline (every timer the debounce holds is eventually fired with a
\* run, cancelled, or replaced); a cleared timer is never armed, so a
\* superseded notification causes no run of its own.
C3_LastNotifyRuns ==
  /\ [](armed \subseteq {timer})
  /\ [](burst.runs <= 1)
  /\ \A id \in TimerIds : (timer = id) ~> Settled(id)

\* C3 witness: a burst of at least two notifications answered by one run.
C3_Witness ==
  /\ burst.notifs >= 2
  /\ burst.runs = 1
  /\ timer = 0
  /\ armed = {}
  /\ phase = "mounted"

\* C11: with fullScreen on, after every recompute with a positive container
\* size, viewportLayout is {0, 0, containerW, containerH}, for every scale
\* mode and both values of allowUpscale.
C11_FullScreenLayout ==
  (Published /\ lastRun.props.fullScreen /\ lastRun.cw > 0 /\ lastRun.ch > 0) =>
    viewportLayout = Layout(0, 0, lastRun.cw, lastRun.ch)

\* C11 witness: a full-screen recompute under scaleMode none and allowUpscale
\* off, in a container whose aspect differs from the design's.
C11_Witness ==
  /\ RunOf(1920, 1080, 1000, 2000)
  /\ lastRun.props.fullScreen
  /\ lastRun.props.scaleMode = "none"
  /\ ~lastRun.props.allowUpscale
  /\ viewportLayout = Layout(0, 0, 1000, 2000)

NoneRun == Published /\ lastRun.props.scaleMode = "none"

\* the rectangle of a HUD box hudW x hudH at scale 1, centred, offsets >= 0
UnscaledFootprint ==
  LET l == RHalf[RSub[RInt[lastRun.cw], RInt[lastRun.hudW]]]
      t == RHalf[RSub[RInt[lastRun.ch], RInt[lastRun.hudH]]]
  IN [left |-> IF RLe[Zero, l] THEN l ELSE Zero,
      top |-> IF RLe[Zero, t] THEN t ELSE Zero,
      width |-> RInt[lastRun.hudW],
      height |-> RInt[lastRun.hudH]]

C14_GuardedScale ==
  (Published /\ (\/ lastRun.cw <= 0 \/ lastRun.ch <= 0
                 \/ lastRun.props.designWidth <= 0
                 \/ lastRun.props.designHeight <= 0)) =>
    /\ contextRef.scale = One
    /\ uniformScale = One

\* the scale the policy q resolves for the fields of the context record c
ScaleOfRecord(c, q) ==
  LET wr == Rat[c.containerWidth, c.designWidth]
      hr == Rat[c.containerHeight, c.designHeight]
      cap(r) == IF q.allowUpscale \/ RLe[r, One] THEN r ELSE One
      lo(a, b) == IF RLe[a, b] THEN a ELSE b
  IN IF q.scaleMode = "none" THEN One
     ELSE IF q.fullScreen THEN lo(cap(wr), cap(hr))
     ELSE IF RLt[Zero, cap(lo(wr, hr))] THEN cap(lo(wr, hr)) ELSE One

C17_InitialUntilMeasured ==
  /\ contextRef = InitialContext(props)
  /\ [](~Published =>
         /\ contextRef.scale = One
         /\ contextRef.containerWidth = 0
         /\ contextRef.containerHeight = 0
         /\ phase = "created" => contextRef = InitialContext(props))
  /\ [][contextRef' # contextRef =>
          /\ shellEl /\ hudWrapperEl
          /\ tasks # << >> /\ Head(tasks).kind = "refresh"
          /\ Published'
          /\ contextRef'.containerWidth = host[1]
          /\ contextRef'.containerHeight = host[2]
          /\ lastRun'.cw = host[1] /\ lastRun'.ch = host[2]]_vars

\* C17 witness: the shell is mounted in a host that already has a size, the
\* first refresh is still suspended, and the record is the initial one.
C17_Witness ==
  /\ phase = "mounted"
  /\ ~Published
  /\ tasks # << >>
  /\ host = <<960, 540>>
  /\ contextRef = InitialContext(props)
  /\ contextRef.containerWidth = 0

DirectRefresh(origin) ==
  /\ tasks' = Append(tasks, [kind |-> "refresh", origin |-> origin,
                             shell |-> shellEl'])
  /\ timer' = timer
  /\ armed' = armed
  /\ burst' = burst

\* C18: the mount and every change of the watched props start a refresh in
\* the same step, and that step leaves the debounce as it is (timer, armed
\* timers, Idle or Pending); once the refreshes have run, what the shell
\* published is the current configuration (for a positive design size): the
\* record's design size and scale, and the layout's full-screen rectangle.
C18_ConfigBypassesDebounce ==
  /\ [][(phase = "created" /\ phase' = "mounted") => DirectRefresh("mount")]_vars
  /\ [][props' # props => DirectRefresh("watch")]_vars
  /\ []((phase = "mounted" /\ tasks = << >>
           /\ props.designWidth > 0 /\ props.designHeight > 0) =>
          /\ lastRun.props = props
          /\ contextRef.designWidth = props.designWidth
          /\ contextRef.designHeight = props.designHeight
          /\ contextRef.scale = ScaleOfRecord(contextRef, props)
          /\ props.fullScreen =>
               viewportLayout = Layout(0, 0, contextRef.containerWidth,
                                       contextRef.containerHeight))

\* C18 witness: a prop change arrived while a debounce timer was armed; its
\* refresh has run and published the new props, and the timer is still armed.
C18_Witness ==
  /\ lastRun.origin = "watch"
  /\ lastRun.props = props
  /\ props.fullScreen
  /\ tasks = << >>
  /\ timer # 0
  /\ timer \in armed
  /\ phase = "mounted"

\* the transform the shell computed last for the HUD wrapper (the identity
\* before the first recompute), for a positive design size
ShellTransform ==
  LET cap(r) == IF lastRun.props.allowUpscale \/ RLe[r, One] THEN r ELSE One
  IN IF ~Published \/ lastRun.props.scaleMode = "none" THEN NoTransform
     ELSE IF lastRun.props.fullScreen
          THEN ScaleTransform(cap(WidthRatio), cap(HeightRatio))
     ELSE ScaleTransform(contextRef.scale, contextRef.scale)

\* C19 as stated: whatever shellStyle and wrapperStyle maps the consumer
\* passes, the engine-mount layer's rendered transform is the identity and the
\* HUD wrapper's effective transform is the one the shell computed.
C19_StylesKeepInvariants ==
  /\ engineStyle.transform = NoTransform
  /\ wrapper.transform = ShellTransform

\* what a consumer reads through a handle
Deref(h) == IF h = <<"contextRef">> THEN <<contextRef>> ELSE << >>

\* C20: a lookup made with no provider in scope, by useAdScreenShell or by
\* useAdScreenOverlayRoot, throws the error that names the missing
\* AdScreenShell provider and returns nothing; a lookup below a shell returns
\* the handle that shell provided, through which the consumer reads the
\* shell's current record, never a default one.
C20_LookupFailsLoudly ==
  lookup.call # "none" =>
    /\ ~lookup.inside =>
         /\ lookup.outcome = "thrown"
         /\ lookup.error = MissingProvider
         /\ lookup.handle = << >>
    /\ lookup.inside =>
         /\ lookup.outcome = "returned"
         /\ lookup.error = ""
         /\ lookup.handle = <<"contextRef">>
         /\ Deref(lookup.handle) = <<contextRef>>

\* C20 witness: useAdScreenOverlayRoot was called outside any shell and threw,
\* while a mounted shell has published a measured record.
C20_Witness ==
  /\ lookup.call = "useAdScreenOverlayRoot"
  /\ ~lookup.inside
  /\ lookup.outcome = "thrown"
  /\ lookup.error = MissingProvider
  /\ phase = "mounted"
  /\ contextRef.containerWidth = 960

InitCalls == 1 .. MaxInits

\* C21: no init() call ends in an error; a call whose terrain loading failed
\* resolves, in the step in which it resumes, with the Viewer it constructed
\* and registers it as viewerSingleton and viewerRef; an init() that starts
\* while a viewer is registered returns that viewer and constructs nothing;
\* and resize() acts on the registered viewer also when it has no terrain.
C21_TerrainFailureSwallowed ==
  /\ [](\A c \in InitCalls :
          /\ calls[c].pc \in {"idle", "terrain", "done"}
          /\ calls[c].pc = "done" => calls[c].result # 0)
  /\ [][\A c \in InitCalls :
          (calls[c].pc = "terrain" /\ calls'[c].pc # "terrain") =>
            /\ calls'[c].pc = "done"
            /\ calls'[c].result = calls[c].viewer
            /\ viewerSingleton' = calls[c].viewer
            /\ viewerRef' = calls[c].viewer]_vars
  /\ [][\A c \in InitCalls :
          (calls[c].pc = "idle" /\ calls'[c].pc = "done") =>
            /\ viewerSingleton # 0
            /\ calls'[c].result = viewerSingleton
            /\ viewers' = viewers]_vars
  /\ [][\A v \in 1 .. Len(viewers) :
          (~viewers[v].resized /\ viewers'[v].resized) => viewerRef = v]_vars

\* C21 witness: the first init() lost its terrain and still registered its
\* viewer; a later init() returned the same viewer, and resize() reached it.
C21_Witness ==
  /\ Len(viewers) = 1
  /\ ~viewers[1].terrain
  /\ viewers[1].resized
  /\ ~viewers[1].destroyed
  /\ calls[1] = [pc |-> "done", viewer |-> 1, result |-> 1]
  /\ calls[2] = [pc |-> "done", viewer |-> 0, result |-> 1]
  /\ viewerSingleton = 1
  /\ viewerRef = 1

\* A refresh continuation runs in this step.
RefreshRuns ==
  /\ tasks # << >>
  /\ Head(tasks).kind = "refresh"
  /\ tasks' # tasks
  /\ Len(tasks') <= Len(tasks)

\* The props and the host size are those of the last refresh that published.
SameInputs ==
  /\ Published
  /\ lastRun.props = props
  /\ lastRun.cw = host[1]
  /\ lastRun.ch = host[2]

\* C22: a refresh that runs with the props and the container size of the
\* refresh before it leaves ShellContext and ViewportLayout as they are.
C22_RefreshIdempotent ==
  [][(RefreshRuns /\ SameInputs /\ phase = "mounted") =>
       /\ contextRef' = contextRef
       /\ viewportLayout' = viewportLayout
       /\ uniformScale' = uniformScale]_vars

\* C22 witness: after the mount's refresh, a debounced refresh ran with the
\* same props and host size (neither has changed since the setup) and
\* published; the scale is a real one.
C22_Witness ==
  /\ phase = "mounted"
  /\ nChanges = 0
  /\ lastRun.origin = "timer"
  /\ SameInputs
  /\ contextRef.scale # One
  /\ tasks = << >>

\* The two-state scheduler the debounce is to implement, as steps of
\* <<timer, armed>>.  Idle is timer = 0, Pending is timer # 0.
SchedNotify ==
  /\ timer' # 0
  /\ timer' # timer
  /\ armed' = {timer'}
  /\ tasks' = tasks

SchedFire ==
  /\ timer # 0
  /\ timer' = 0
  /\ armed' = {}
  /\ tasks' = Append(tasks, [kind |-> "refresh", origin |-> "timer",
                             shell |-> shellEl])

SchedCancel ==
  /\ timer # 0
  /\ timer' = 0
  /\ armed' = {}
  /\ tasks' = tasks
  /\ phase' = "unmounted"

\* C23: the debounce is the two-state scheduler: the armed timers are exactly
\* the one `timer` holds (none when Idle), and every step that changes the
\* debounce is a notify (clears the armed timer if any, arms a fresh one,
\* runs nothing), a fire (to Idle, and the callback starts exactly one
\* refresh) or a cancel (to Idle, nothing armed, nothing run).
C23_TwoStateScheduler ==
  /\ [](armed = IF timer = 0 THEN {} ELSE {timer})
  /\ [][SchedNotify \/ SchedFire \/ SchedCancel]_<<timer, armed>>

\* C23 witness: a timer has fired and its refresh has run; since then
\* notify() was called while Idle and again while Pending, and exactly the
\* newest timer is armed.
C23_Witness ==
  /\ phase = "mounted"
  /\ lastRun.origin = "timer"
  /\ burst.notifs = 2
  /\ timer # 0
  /\ armed = {timer}

\* C24: once the shell is unmounted and every pending continuation has run,
\* no timer is armed, no ResizeObserver observes the host and no window
\* resize listener is registered.
C24_TeardownDetachesAll ==
  (phase = "unmounted" /\ tasks = << >>) =>
    /\ armed = {}
    /\ timer = 0
    /\ ~ro
    /\ ~listener

\* The refresh() calls that have started and not yet finished: each is
\* suspended at its `await nextTick()`.
RefreshesInFlight ==
  Cardinality({i \in DOMAIN tasks : tasks[i].kind = "refresh"})

\* A step writes something the pipeline writes.
PipelineWrites ==
  \/ state' # state
  \/ uniformScale' # uniformScale
  \/ viewportLayout' # viewportLayout
  \/ contextRef' # contextRef
  \/ lastRun' # lastRun

\* What one run of the pipeline leaves: the measurement of this step, the
\* scale resolved from it, the rectangle of that scale, all of it published.
PipelineResult ==
  /\ contextRef'.containerWidth = host[1]
  /\ contextRef'.containerHeight = host[2]
  /\ contextRef'.designWidth = props.designWidth
  /\ contextRef'.designHeight = props.designHeight
  /\ uniformScale' = ScaleOfRecord(contextRef', props)
  /\ contextRef'.scale = uniformScale'
  /\ IF props.fullScreen
     THEN viewportLayout' = Layout(0, 0, host[1], host[2])
     ELSE /\ viewportLayout'.width = RMul[RInt[wrapper'.width], uniformScale']
          /\ viewportLayout'.height = RMul[RInt[wrapper'.height], uniformScale']
          /\ viewportLayout'.left = Centre(host[1], viewportLayout'.width)
          /\ viewportLayout'.top = Centre(host[2], viewportLayout'.height)

Publishes == contextRef' # contextRef \/ lastRun' # lastRun

CurrentBundle ==
  [uniformScale |-> uniformScale, layout |-> viewportLayout,
   context |-> contextRef, wrapper |-> wrapper, published |-> FALSE]

\* C27: a refresh that runs while the host element ref or the HUD wrapper
\* ref is null leaves ShellContext, ViewportLayout and uniformScale (and the
\* wrapper's style) unchanged; and in every reachable state updateScale with
\* either ref null returns what it was given.
C27_DetachedIsNoOp ==
  /\ [](\A shell \in BOOLEAN : \A wrapperEl \in BOOLEAN :
          (~shell \/ ~wrapperEl) =>
            UpdateScale(CurrentBundle, state, props, host, shell, wrapperEl)
              = CurrentBundle)
  /\ [][(RefreshRuns /\ (~shellEl \/ ~hudWrapperEl)) =>
          /\ contextRef' = contextRef
          /\ viewportLayout' = viewportLayout
          /\ uniformScale' = uniformScale
          /\ wrapper' = wrapper
          /\ lastRun' = lastRun]_vars

\* C27 witness: a refresh that was suspended when the shell was unmounted has
\* run with both refs null, after an earlier refresh had published a scale.
C27_Witness ==
  /\ phase = "unmounted"
  /\ ~shellEl
  /\ ~hudWrapperEl
  /\ afterUnmount = 1
  /\ Published
  /\ contextRef.scale # One
  /\ contextRef.containerWidth > 0

\* C28: once AdCesiumHost is unmounted and its mount hook is no longer
\* suspended, no ResizeObserver of the host observes its element and the
\* host has made no resize() call after the unmount.
C28_HostDetachedAfterUnmount ==
  (cesiumHost.phase = "unmounted" /\ cesiumHost.pc # "awaiting") =>
    /\ ~cesiumHost.observed
    /\ ~cesiumHost.ro
    /\ cesiumHost.late = 0

\* C29: after a destroy() call has returned, no viewer is registered until an
\* init() that starts after it: a viewer whose init() had started before a
\* destroy() returned is neither viewerSingleton nor viewerRef.
C29_DestroyClearsRegistry ==
  \A v \in DOMAIN viewers :
    viewers[v].beforeDestroy => (viewerSingleton # v /\ viewerRef # v)

=============================================================================
